---- MODULE Spec2Model ----
(***************************************************************************)
(* A model of the twag tag-redirect service: the Hex14 and NotionPageId    *)
(* value types of src/src/models.rs and the HTTP handlers of               *)
(* src/src/main.rs.                                                        *)
(*                                                                         *)
(* A Rust String is modelled as a sequence of characters, each character a *)
(* one-character TLA+ string.  Byte lengths (str::len) are computed from   *)
(* the UTF-8 width of each character, so that the difference between the   *)
(* number of characters and the number of bytes is visible.                *)
(***************************************************************************)
EXTENDS Integers, Sequences, FiniteSets, TLC

VARIABLES
    hexInput,    \* the string handed to Hex14::new
    hexResult,   \* what Hex14::new returned for it (NoResult before the call)
    hexAgain,    \* what Hex14::new returned for the rendering of hexResult
    store,       \* the rows of table twag_tags
    lkPc,        \* where the running get_tag_by_id is: idle, acquire, fetch, done
    lkParam,     \* its path parameter
    lkId,        \* its id: Option<Hex14>, None until decoded
    lkTap,       \* its tap_count: Option<i32>
    lkTag,       \* the row its query fetched: Option<row>
    lkResp,      \* its response, NoResponse until it returns
    lkAcquires,  \* how many times it asked the pool for a connection
    lkFetches,   \* how many queries it issued
    crId,        \* param.id of the latest creation request: Option<Hex14>
    crInsert,    \* the row the latest create_tag handed to INSERT: Option<row>
    crResp,      \* the response of the latest creation request
    nParts,      \* the pieces the input of NotionPageId::new was written from
    nInput,      \* the string handed to NotionPageId::new
    nSegment,    \* the segment it handed to extract_id_from_segment: Option<&str>
    nExtract,    \* what extract_id_from_segment returned (NoNotion when not called)
    nResult,     \* what NotionPageId::new returned (NoNotion before the call)
    nAgain,      \* what NotionPageId::new returned for renderings of nResult
    vIn,         \* what validate_notion_databases was called with and is answered
    vPc,         \* where it is: idle, things, containers, done
    vRetrieved,  \* the databases it retrieved, in order
    vResult      \* what it returned (NoValidation before it returns)

hexVars == <<hexInput, hexResult, hexAgain>>

lkVars == <<lkPc, lkParam, lkId, lkTap, lkTag, lkResp, lkAcquires, lkFetches>>

crVars == <<crId, crInsert, crResp>>

nVars == <<nParts, nInput, nSegment, nExtract, nResult, nAgain>>

vVars == <<vIn, vPc, vRetrieved, vResult>>

vars == <<hexVars, store, lkVars, crVars, nVars, vVars>>

-----------------------------------------------------------------------------
(* Characters *)

UpperHexChars == <<"0","1","2","3","4","5","6","7","8","9","A","B","C","D","E","F">>

LowerHexChars == <<"0","1","2","3","4","5","6","7","8","9","a","b","c","d","e","f">>

\* The characters with a two-byte UTF-8 encoding that the inputs use.
NonAsciiChars == {"é", "É"}

\* char::len_utf8
Utf8Len(c) == IF c \in NonAsciiChars THEN 2 ELSE 1

\* char::is_ascii_hexdigit
IsAsciiHexDigit(c) ==
    \E i \in 1..16 : c = UpperHexChars[i] \/ c = LowerHexChars[i]

\* char::to_uppercase, on the letters the inputs use
ToUpperChar(c) ==
    CASE c = "a" -> "A" [] c = "b" -> "B" [] c = "c" -> "C" [] c = "d" -> "D"
      [] c = "e" -> "E" [] c = "f" -> "F" [] c = "g" -> "G" [] c = "x" -> "X"
      [] c = "é" -> "É"
      [] OTHER -> c

\* str::to_uppercase
to_uppercase(s) == [i \in 1..Len(s) |-> ToUpperChar(s[i])]

RECURSIVE ByteLen(_)
\* str::len: the length of the string in bytes
ByteLen(s) == IF s = <<>> THEN 0 ELSE Utf8Len(Head(s)) + ByteLen(Tail(s))

\* s with its i-th character replaced by c (used to build inputs)
Subst(s, i, c) == [s EXCEPT ![i] = c]

-----------------------------------------------------------------------------
(* Hex14 *)

Hex14Len == 14

NoResult == [tag |-> "None", val |-> <<>>, err |-> "", len |-> 0, ch |-> ""]

Hex14Ok(v) == [tag |-> "Ok", val |-> v, err |-> "", len |-> 0, ch |-> ""]

InvalidLength(n) ==
    [tag |-> "Err", val |-> <<>>, err |-> "InvalidLength", len |-> n, ch |-> ""]

InvalidCharacter(c) ==
    [tag |-> "Err", val |-> <<>>, err |-> "InvalidCharacter", len |-> 0, ch |-> c]

\* s.chars().find(|&c| !c.is_ascii_hexdigit())
FirstNonHex(s) ==
    s[CHOOSE i \in 1..Len(s) :
        /\ ~IsAsciiHexDigit(s[i])
        /\ \A j \in 1..(i - 1) : IsAsciiHexDigit(s[j])]

Hex14_new_keeps_case(s) ==
    IF ByteLen(s) # Hex14Len THEN InvalidLength(ByteLen(s))
    ELSE IF \E i \in 1..Len(s) : ~IsAsciiHexDigit(s[i])
         THEN InvalidCharacter(FirstNonHex(s))
         ELSE Hex14Ok(s)

\* Hex14::new
Hex14_new(s) ==
    IF ByteLen(s) # Hex14Len THEN InvalidLength(ByteLen(s))
    ELSE IF \E i \in 1..Len(s) : ~IsAsciiHexDigit(s[i])
         THEN InvalidCharacter(FirstNonHex(s))
         ELSE Hex14Ok(to_uppercase(s))

\* Hex14::as_str, and Display for Hex14
Hex14_as_str(h) == h

-----------------------------------------------------------------------------
(* The lookup handler's slug decoding (get_tag_by_id) *)

\* Option<T>: None is the empty sequence, Some(x) the sequence of x alone.
None == <<>>

Some(x) == <<x>>

SlugIdLen == 14

SlugTapLen == 6

\* The character class [0-9A-F]
InUpperHexClass(c) == \E i \in 1..16 : c = UpperHexChars[i]

\* [0-9A-F]{n} at position p: the position after the run, or 0 for no match
MatchUpperHexRun(s, p, n) ==
    IF p + n - 1 <= Len(s) /\ \A i \in p..(p + n - 1) : InUpperHexClass(s[i])
    THEN p + n
    ELSE 0

\* [0-9A-F]{14}
MatchId(s, p) == MatchUpperHexRun(s, p, SlugIdLen)

\* [0-9A-F]{6}
MatchTap(s, p) == MatchUpperHexRun(s, p, SlugTapLen)

\* ^ : the positions at which a match may start
MatchStart(s) == {1}

AnyEnd(s, p) == TRUE

\* $ : a match may end only at the end of the text (the regex crate's $ without
\* the multi-line flag; a line feed before the end is not an end).
MatchEnd(s, p) == p = Len(s) + 1

NoCaptures == [matched |-> FALSE, id_str |-> <<>>, tap_count_str |-> <<>>]

\* ([0-9A-F]{14})(?:x([0-9A-F]{6}))?$ tried at position p: the optional group is
\* tried first and given up when the rest does not match.
MatchFrom(s, p) ==
    LET a == MatchId(s, p)
        b == IF a # 0 /\ a <= Len(s) /\ s[a] = "x" THEN MatchTap(s, a + 1) ELSE 0
    IN  IF a = 0 THEN NoCaptures
        ELSE IF b # 0 /\ MatchEnd(s, b)
             THEN [matched |-> TRUE, id_str |-> SubSeq(s, p, a - 1),
                   tap_count_str |-> SubSeq(s, a + 1, b - 1)]
        ELSE IF MatchEnd(s, a)
             THEN [matched |-> TRUE, id_str |-> SubSeq(s, p, a - 1),
                   tap_count_str |-> <<>>]
        ELSE NoCaptures

\* regex_captures!(r"^([0-9A-F]{14})(?:x([0-9A-F]{6}))?$", &param): the leftmost
\* match; a group that took no part in the match is the empty string.
regex_captures(s) ==
    LET hits == {p \in MatchStart(s) : MatchFrom(s, p).matched}
    IN  IF hits = {} THEN NoCaptures
        ELSE MatchFrom(s, CHOOSE p \in hits : \A q \in hits : p <= q)

\* char::to_digit(16)
HexDigitValue(c) ==
    CHOOSE v \in 0..15 : c = UpperHexChars[v + 1] \/ c = LowerHexChars[v + 1]

RECURSIVE HexToNat(_)
HexToNat(s) ==
    IF s = <<>> THEN 0
    ELSE HexToNat(SubSeq(s, 1, Len(s) - 1)) * 16 + HexDigitValue(s[Len(s)])

\* The number of hex digits of an i32.
I32HexDigits == 8

RECURSIVE StripZeros(_)
StripZeros(s) == IF s # <<>> /\ Head(s) = "0" THEN StripZeros(Tail(s)) ELSE s

DecimalChars == {"0","1","2","3","4","5","6","7","8","9"}

RECURSIVE DecToNat(_)
DecToNat(s) ==
    IF s = <<>> THEN 0
    ELSE DecToNat(SubSeq(s, 1, Len(s) - 1)) * 10 + HexDigitValue(s[Len(s)])

\* The digits read in base 10.
i32_from_str_radix10_ok(s) ==
    IF s = <<>> \/ \E i \in 1..Len(s) : s[i] \notin DecimalChars THEN None
    ELSE Some(DecToNat(s))

\* i32::from_str_radix(s, 16).ok(), for digit strings without a sign: None for
\* an empty string, a character that is no hex digit, or a value above i32::MAX.
i32_from_str_radix_ok(s) ==
    IF s = <<>> \/ \E i \in 1..Len(s) : ~IsAsciiHexDigit(s[i]) THEN None
    ELSE LET d == StripZeros(s)
         IN  IF Len(d) > I32HexDigits \/ (Len(d) = I32HexDigits /\ HexDigitValue(d[1]) >= 8)
             THEN None
             ELSE Some(HexToNat(d))

tap_count_defaulted(tap_count_str) ==
    IF tap_count_str = <<>> THEN Some(0) ELSE i32_from_str_radix_ok(tap_count_str)

\* (!tap_count_str.is_empty()).then_some(tap_count_str)
\*     .and_then(|s| i32::from_str_radix(s, 16).ok())
tap_count_of(tap_count_str) ==
    IF tap_count_str = <<>> THEN None ELSE i32_from_str_radix_ok(tap_count_str)

RECURSIVE UpperHexOf(_)
\* {:X} of a non-negative integer
UpperHexOf(n) ==
    IF n < 16 THEN <<UpperHexChars[n + 1]>>
    ELSE Append(UpperHexOf(n \div 16), UpperHexChars[(n % 16) + 1])

ZeroPad(s, w) == IF Len(s) >= w THEN s ELSE [i \in 1..(w - Len(s)) |-> "0"] \o s

\* format!("{:06X}", tap_count): the tap count the lookup handler formats was
\* parsed from at most six hex digits, so it is never negative.
FormatTap(n) == ZeroPad(UpperHexOf(n), SlugTapLen)

-----------------------------------------------------------------------------
(* NotionPageId *)

NoNotion == [tag |-> "None", val |-> <<>>, err |-> "", input |-> <<>>]

NotionOk(v) == [tag |-> "Ok", val |-> v, err |-> "", input |-> <<>>]

\* NotionPageIdError::InvalidFormat { input }
InvalidFormat(input) == [tag |-> "Err", val |-> <<>>, err |-> "InvalidFormat", input |-> input]

\* NotionPageIdError::MissingPageId { input }
MissingPageId(input) == [tag |-> "Err", val |-> <<>>, err |-> "MissingPageId", input |-> input]

\* NotionPageIdError::InvalidId { input }
InvalidId(input) == [tag |-> "Err", val |-> <<>>, err |-> "InvalidId", input |-> input]

\* A panic: slicing a str at a byte offset that is inside a character.
Panicked == [tag |-> "Panic", val |-> <<>>, err |-> "", input |-> <<>>]

\* No rendering of the result has been parsed again.
ReparseKinds == {"canonical", "raw", "upper", "rawUpper"}

NoReparse == [done |-> FALSE, results |-> [k \in ReparseKinds |-> NoNotion]]

NotionIdle ==
    /\ nParts = [kind |-> "none"]
    /\ nInput = <<>>
    /\ nSegment = None
    /\ nExtract = NoNotion
    /\ nResult = NoNotion
    /\ nAgain = NoReparse

AsciiLowerLetters ==
    {"a","b","c","d","e","f","g","h","i","j","k","l","m",
     "n","o","p","q","r","s","t","u","v","w","x","y","z"}

AsciiUpperLetters ==
    {"A","B","C","D","E","F","G","H","I","J","K","L","M",
     "N","O","P","Q","R","S","T","U","V","W","X","Y","Z"}

AsciiDigits == {"0","1","2","3","4","5","6","7","8","9"}

\* char::to_ascii_lowercase
ToLowerChar(c) ==
    CASE c = "A" -> "a" [] c = "B" -> "b" [] c = "C" -> "c" [] c = "D" -> "d"
      [] c = "E" -> "e" [] c = "F" -> "f" [] c = "G" -> "g" [] c = "H" -> "h"
      [] c = "I" -> "i" [] c = "J" -> "j" [] c = "K" -> "k" [] c = "L" -> "l"
      [] c = "M" -> "m" [] c = "N" -> "n" [] c = "O" -> "o" [] c = "P" -> "p"
      [] c = "Q" -> "q" [] c = "R" -> "r" [] c = "S" -> "s" [] c = "T" -> "t"
      [] c = "U" -> "u" [] c = "V" -> "v" [] c = "W" -> "w" [] c = "X" -> "x"
      [] c = "Y" -> "y" [] c = "Z" -> "z"
      [] OTHER -> c

\* str::to_lowercase, on ASCII text
to_lowercase(s) == [i \in 1..Len(s) |-> ToLowerChar(s[i])]

\* The first position from p on whose character is in set cs; Len(s) + 1 if none.
IndexOfAny(s, cs, p) ==
    IF \E i \in p..Len(s) : s[i] \in cs
    THEN CHOOSE i \in p..Len(s) : s[i] \in cs /\ \A j \in p..(i - 1) : s[j] \notin cs
    ELSE Len(s) + 1

RECURSIVE SplitOn(_, _)
\* str::split(c): the pieces between the occurrences of c, empty ones included
SplitOn(s, c) ==
    LET i == IndexOfAny(s, {c}, 1)
    IN  IF i > Len(s) THEN <<s>>
        ELSE <<SubSeq(s, 1, i - 1)>> \o SplitOn(SubSeq(s, i + 1, Len(s)), c)

-----------------------------------------------------------------------------
(* Url::parse of the url crate, for the inputs of this model: no userinfo, *)
(* no port, no percent-encoded or non-ASCII character in a URL, no "." or  *)
(* ".." path segment, no IPv6 literal.                                     *)

SpecialSchemes == {<<"h","t","t","p">>, <<"h","t","t","p","s">>, <<"w","s">>, <<"w","s","s">>, <<"f","t","p">>}

NotAUrl == [ok |-> FALSE, scheme |-> <<>>, hostKind |-> "None", host |-> <<>>,
            hasSegments |-> FALSE, segments |-> <<>>]

\* The position of the ":" that ends the scheme, or 0: the scheme is a letter
\* followed by letters, digits, "+", "-" and ".".
SchemeEnd(s) ==
    LET schemeChars == AsciiLowerLetters \cup AsciiUpperLetters \cup AsciiDigits \cup {"+", "-", "."}
        i == IF \E k \in 1..Len(s) : s[k] \notin schemeChars
             THEN CHOOSE k \in 1..Len(s) :
                     s[k] \notin schemeChars /\ \A j \in 1..(k - 1) : s[j] \in schemeChars
             ELSE 0
    IN  IF i > 1 /\ s[i] = ":" /\ s[1] \in AsciiLowerLetters \cup AsciiUpperLetters
        THEN i
        ELSE 0

\* The first position from p on that holds neither "/" nor "\".
SkipSlashes(s, p) ==
    IF \E i \in p..Len(s) : s[i] \notin {"/", "\\"}
    THEN CHOOSE i \in p..Len(s) :
            s[i] \notin {"/", "\\"} /\ \A j \in p..(i - 1) : s[j] \in {"/", "\\"}
    ELSE Len(s) + 1

\* Host::Ipv4 rather than Host::Domain: the last label is a number.
EndsInNumber(host) ==
    LET labels == SplitOn(host, ".")
        last == labels[Len(labels)]
    IN  last # <<>> /\ \A i \in 1..Len(last) : last[i] \in AsciiDigits

\* Url::path_segments: the path without its leading "/", split on "/".
PathSegments(path) == SplitOn(SubSeq(path, 2, Len(path)), "/")

UrlWithHost(scheme, kind, host, path) ==
    [ok |-> TRUE, scheme |-> scheme, hostKind |-> kind, host |-> host,
     hasSegments |-> TRUE, segments |-> PathSegments(path)]

Url_parse(s) ==
    LET colon == SchemeEnd(s)
        scheme == to_lowercase(SubSeq(s, 1, colon - 1))
    IN  IF colon = 0 THEN NotAUrl   \* ParseError::RelativeUrlWithoutBase
        ELSE IF scheme \in SpecialSchemes
        THEN LET a == SkipSlashes(s, colon + 1)
                 e == IndexOfAny(s, {"/", "\\", "?", "#"}, a)
                 host == to_lowercase(SubSeq(s, a, e - 1))
                 q == IndexOfAny(s, {"?", "#"}, e)
                 path == IF q = e THEN <<"/">> ELSE SubSeq(s, e, q - 1)
             IN  IF host = <<>> THEN NotAUrl   \* ParseError::EmptyHost
                 ELSE UrlWithHost(scheme, IF EndsInNumber(host) THEN "Ipv4" ELSE "Domain",
                                  host, path)
        ELSE IF colon + 2 <= Len(s) /\ s[colon + 1] = "/" /\ s[colon + 2] = "/"
        THEN LET a == colon + 3
                 e == IndexOfAny(s, {"/", "?", "#"}, a)
                 host == SubSeq(s, a, e - 1)
                 q == IndexOfAny(s, {"?", "#"}, e)
                 path == SubSeq(s, e, q - 1)
             IN  [ok |-> TRUE, scheme |-> scheme,
                  hostKind |-> IF host = <<>> THEN "None" ELSE "Domain", host |-> host,
                  hasSegments |-> TRUE, segments |-> PathSegments(path)]
        ELSE IF colon + 1 <= Len(s) /\ s[colon + 1] = "/"
        THEN LET q == IndexOfAny(s, {"?", "#"}, colon + 1)
             IN  [ok |-> TRUE, scheme |-> scheme, hostKind |-> "None", host |-> <<>>,
                  hasSegments |-> TRUE,
                  segments |-> PathSegments(SubSeq(s, colon + 1, q - 1))]
        ELSE \* a path that cannot be a base: no host, path_segments() is None
             [ok |-> TRUE, scheme |-> scheme, hostKind |-> "None", host |-> <<>>,
              hasSegments |-> FALSE, segments |-> <<>>]

-----------------------------------------------------------------------------
(* Uuid::try_parse of the uuid crate, and the two renderings used.  A Uuid *)
(* is modelled as its 32 hex digit values.                                 *)

NoUuid == [ok |-> FALSE, digits |-> <<>>]

IsAscii(s) == \A i \in 1..Len(s) : s[i] \notin NonAsciiChars

\* 32 hex digits
ParseSimple(s) ==
    IF Len(s) = 32 /\ \A i \in 1..32 : IsAsciiHexDigit(s[i])
    THEN [ok |-> TRUE, digits |-> [i \in 1..32 |-> HexDigitValue(s[i])]]
    ELSE NoUuid

HyphenPositions == {9, 14, 19, 24}

RemoveHyphens(s) == SelectSeq(s, LAMBDA c : c # "-")

\* 8-4-4-4-12 hex digits with a hyphen between the groups
ParseHyphenated(s) ==
    IF /\ Len(s) = 36
       /\ \A i \in 1..36 : IF i \in HyphenPositions THEN s[i] = "-" ELSE IsAsciiHexDigit(s[i])
    THEN ParseSimple(RemoveHyphens(s))
    ELSE NoUuid

UrnPrefix == <<"u","r","n",":","u","u","i","d",":">>

\* Uuid::try_parse: the simple form, the hyphenated form, the hyphenated form in
\* braces, and the hyphenated form after "urn:uuid:".
Uuid_try_parse(s) ==
    IF ~IsAscii(s) THEN NoUuid
    ELSE IF Len(s) = 32 THEN ParseSimple(s)
    ELSE IF Len(s) = 36 THEN ParseHyphenated(s)
    ELSE IF Len(s) = 38 /\ s[1] = "{" /\ s[38] = "}" THEN ParseHyphenated(SubSeq(s, 2, 37))
    ELSE IF Len(s) = 45 /\ SubSeq(s, 1, 9) = UrnPrefix THEN ParseHyphenated(SubSeq(s, 10, 45))
    ELSE NoUuid

\* uuid.simple().to_string()
UuidSimple(u) == [i \in 1..32 |-> LowerHexChars[u[i] + 1]]

\* uuid.hyphenated().to_string()
UuidHyphenated(u) ==
    LET t == UuidSimple(u)
    IN  SubSeq(t, 1, 8) \o <<"-">> \o SubSeq(t, 9, 12) \o <<"-">> \o SubSeq(t, 13, 16)
        \o <<"-">> \o SubSeq(t, 17, 20) \o <<"-">> \o SubSeq(t, 21, 32)

UuidLen == 32

\* NotionPageId::try_parse_as_uuid
try_parse_as_uuid(input) ==
    IF ByteLen(input) = UuidLen /\ \A i \in 1..Len(input) : IsAsciiHexDigit(input[i])
    THEN Uuid_try_parse(SubSeq(input, 1, 8) \o <<"-">> \o SubSeq(input, 9, 12) \o <<"-">>
                        \o SubSeq(input, 13, 16) \o <<"-">> \o SubSeq(input, 17, 20)
                        \o <<"-">> \o SubSeq(input, 21, 32))
    ELSE Uuid_try_parse(input)

\* &cleaned[cleaned.len() - 32..]: the characters from byte offset
\* ByteLen(s) - n on, when that offset is a character boundary.
IsCharBoundary(s, n) == \E k \in 1..(Len(s) + 1) : ByteLen(SubSeq(s, k, Len(s))) = n

ByteSuffix(s, n) ==
    SubSeq(s, CHOOSE k \in 1..(Len(s) + 1) : ByteLen(SubSeq(s, k, Len(s))) = n, Len(s))

\* NotionPageId::extract_id_from_segment
extract_id_from_segment(segment) ==
    LET direct == try_parse_as_uuid(segment)
        cleaned == RemoveHyphens(segment)
    IN  IF direct.ok THEN NotionOk(UuidSimple(direct.digits))
        ELSE IF ByteLen(cleaned) > UuidLen
        THEN IF ~IsCharBoundary(cleaned, UuidLen) THEN Panicked
             ELSE LET suffix == try_parse_as_uuid(ByteSuffix(cleaned, UuidLen))
                  IN  IF suffix.ok THEN NotionOk(UuidSimple(suffix.digits))
                      ELSE InvalidId(segment)
        ELSE InvalidId(segment)

format_as_uuid_raw(id) ==
    IF ByteLen(id) # UuidLen THEN InvalidId(id)
    ELSE LET uuid == try_parse_as_uuid(id)
         IN  IF ~uuid.ok THEN InvalidId(id)
             ELSE NotionOk(UuidSimple(uuid.digits))

\* NotionPageId::format_as_uuid
format_as_uuid(id) ==
    IF ByteLen(id) # UuidLen THEN InvalidId(id)
    ELSE LET uuid == try_parse_as_uuid(id)
         IN  IF ~uuid.ok THEN InvalidId(id)
             ELSE NotionOk(to_lowercase(UuidHyphenated(uuid.digits)))

ProviderHost == <<"w","w","w",".","n","o","t","i","o","n",".","s","o">>

HostSuffixAccepted(url) ==
    /\ url.hostKind = "Domain"
    /\ Len(url.host) >= Len(ProviderHost)
    /\ SubSeq(url.host, Len(url.host) - Len(ProviderHost) + 1, Len(url.host)) = ProviderHost

\* match url.host() { Some(Host::Domain("www.notion.so")) => (), _ => return Err(..) }
IsProviderHost(url) == url.hostKind = "Domain" /\ url.host = ProviderHost

\* url.path_segments().and_then(|mut segments| segments.next_back())
\*    .filter(|segment| !segment.is_empty())
LastSegment(url) ==
    IF url.hasSegments /\ url.segments # <<>> /\ url.segments[Len(url.segments)] # <<>>
    THEN Some(url.segments[Len(url.segments)])
    ELSE None

\* Lines 123-143 and 147-149 of parse_page_id_from_possible_url: the segment to
\* extract the id from, or the error returned before any extraction.
CandidateSegment(input) ==
    LET url == Url_parse(input)
    IN  IF ~url.ok THEN [err |-> NoNotion, segment |-> Some(input)]
        ELSE IF ~IsProviderHost(url) THEN [err |-> InvalidFormat(input), segment |-> None]
        ELSE IF LastSegment(url) = None THEN [err |-> MissingPageId(input), segment |-> None]
        ELSE [err |-> NoNotion, segment |-> LastSegment(url)]

\* NotionPageId::parse_page_id_from_possible_url
parse_page_id_from_possible_url(input) ==
    LET c == CandidateSegment(input)
    IN  IF c.segment = None THEN c.err ELSE extract_id_from_segment(c.segment[1])

\* NotionPageId::new
NotionPageId_new(input) ==
    LET page_id == parse_page_id_from_possible_url(input)
    IN  IF page_id.tag # "Ok" THEN page_id ELSE format_as_uuid(page_id.val)

\* NotionPageId::as_raw
NotionPageId_as_raw(id) == RemoveHyphens(id)

-----------------------------------------------------------------------------
(* The service: the lookup handler get_tag_by_id, the creation handlers    *)
(* create_tag_page and create_tag, and the table twag_tags they share.     *)

NoResponse == [status |-> "", location |-> <<>>]

\* Err(StatusCode::...), and the 200 responses
StatusOnly(code) == [status |-> code, location |-> <<>>]

\* axum::response::Redirect::temporary
RedirectTemporary(uri) == [status |-> "TEMPORARY_REDIRECT", location |-> uri]

\* axum::response::Redirect::permanent
RedirectPermanent(uri) == [status |-> "PERMANENT_REDIRECT", location |-> uri]

\* "/tag/create?id="
CreatePathLit == <<"/","t","a","g","/","c","r","e","a","t","e","?","i","d","=">>

\* "&tap_count="
TapParamLit == <<"&","t","a","p","_","c","o","u","n","t","=">>

\* tap_count.map(|tap_count| format!("/tag/create?id={id}&tap_count={:06X}", tap_count))
\*     .unwrap_or_else(|| format!("/tag/create?id={id}"))
create_url(id, tap_count) ==
    IF tap_count # None
    THEN CreatePathLit \o Hex14_as_str(id) \o TapParamLit \o FormatTap(tap_count[1])
    ELSE CreatePathLit \o Hex14_as_str(id)

RowsAny(rows, id) == rows

\* SELECT * FROM twag_tags WHERE id = $1, fetch_optional: the rows it may return
RowsFor(rows, id) == {r \in rows : r.id = id}

\* #[derive(Deserialize)] on the newtype Hex14(String): the string is wrapped as
\* it is; Hex14::new is not called.
Hex14_deserialize(s) == s

\* Option::or
OptionOr(a, b) == IF a # None THEN a ELSE b

\* Option::unwrap_or
UnwrapOr(a, d) == IF a # None THEN a[1] ELSE d

ServiceIdle ==
    /\ store = {}
    /\ lkPc = "idle"
    /\ lkParam = <<>>
    /\ lkId = None
    /\ lkTap = None
    /\ lkTag = None
    /\ lkResp = NoResponse
    /\ lkAcquires = 0
    /\ lkFetches = 0
    /\ crId = None
    /\ crInsert = None
    /\ crResp = NoResponse

-----------------------------------------------------------------------------
(* Startup validation of the two Notion databases: validate_notion_databases *)
(* and validate_database_relation of src/src/main.rs.                        *)

\* Result<(), String>: the kind of message, the property it names, and the two
\* database ids a wrong-target message carries.
NoValidation == [tag |-> "None", err |-> "", property |-> <<>>, expected |-> <<>>, actual |-> <<>>]

ValidationOk == [tag |-> "Ok", err |-> "", property |-> <<>>, expected |-> <<>>, actual |-> <<>>]

\* format!("Failed to validate database {}: {:?}", database_id, err)
RetrieveFailed(database_id) ==
    [tag |-> "Err", err |-> "RetrieveFailed", property |-> <<>>, expected |-> database_id, actual |-> <<>>]

\* format!("Missing required property '{}' in database", property_name)
MissingProperty(property_name) ==
    [tag |-> "Err", err |-> "MissingProperty", property |-> property_name, expected |-> <<>>, actual |-> <<>>]

\* format!("'{}' property must be a relation type, found: {:?}", property_name, property)
NotRelation(property_name) ==
    [tag |-> "Err", err |-> "NotRelation", property |-> property_name, expected |-> <<>>, actual |-> <<>>]

\* format!("'{}' property points to wrong database: expected {}, got {}", ..)
WrongDatabase(property_name, expected_target_db, actual_db_id) ==
    [tag |-> "Err", err |-> "WrongDatabase", property |-> property_name,
     expected |-> expected_target_db, actual |-> actual_db_id]

\* Option::unwrap of None
ValidationPanicked == [tag |-> "Panic", err |-> "", property |-> <<>>, expected |-> <<>>, actual |-> <<>>]

\* schema.properties.get(name) of a name the schema does not have
Absent == [kind |-> "absent", database_id |-> None]

\* DatabaseProperty::Relation { relation, .. } with relation.database_id = target
Relation(target) == [kind |-> "relation", database_id |-> target]

\* any other DatabaseProperty
OtherProperty(kind) == [kind |-> kind, database_id |-> None]

\* Err(err) of client.databases.retrieve_a_database
RetrieveErr == [ok |-> FALSE, properties |-> <<>>]

\* Ok(schema)
Retrieved(properties) == [ok |-> TRUE, properties |-> properties]

\* schema.properties.get(property_name)
PropertyOf(schema, property_name) ==
    IF property_name \in DOMAIN schema.properties THEN schema.properties[property_name] ELSE Absent

\* relation.database_id.as_ref().unwrap(): None panics
unwrap_panics(opt) == opt = None

\* validate_database_relation, given what retrieve_a_database answered
validate_database_relation(answer, database_id, property_name, expected_target_db) ==
    IF ~answer.ok THEN RetrieveFailed(database_id)
    ELSE LET property == PropertyOf(answer, property_name)
         IN  IF property.kind = "absent" THEN MissingProperty(property_name)
             ELSE IF property.kind = "relation"
             THEN IF unwrap_panics(property.database_id) THEN ValidationPanicked
                  ELSE IF property.database_id[1] # expected_target_db
                  THEN WrongDatabase(property_name, expected_target_db, property.database_id[1])
                  ELSE ValidationOk
             ELSE NotRelation(property_name)

ValidationIdle ==
    /\ vIn = [things_db |-> <<>>, containers_db |-> <<>>, things_column_name |-> <<>>,
              containers_column_name |-> <<>>, things |-> RetrieveErr, containers |-> RetrieveErr]
    /\ vPc = "idle"
    /\ vRetrieved = <<>>
    /\ vResult = NoValidation

-----------------------------------------------------------------------------
(* Inputs of the service *)

\* How many tag ids the requests use.
SlugIdCount == 2

\* Tap counts 0..MaxSmallTap are used besides the fixed ones.
MaxSmallTap == 1

\* The most rows the table holds.
MaxRows == 1

PoolId(k) == [i \in 1..Hex14Len |-> UpperHexChars[((k * 5 + i * 3) % 16) + 1]]

IdPool == {PoolId(k) : k \in 0..(SlugIdCount - 1)}

TapPool == (0..MaxSmallTap) \cup {15, 16, 255, 4096, 11259375, 16777215}

TapOptions == {None} \cup {Some(t) : t \in TapPool}

\* SlugCodec.encode of the specification: the id's text, then "x" and the tap
\* count as six zero-padded uppercase hex digits when there is one.
RECURSIVE Pow16(_)
Pow16(k) == IF k = 0 THEN 1 ELSE 16 * Pow16(k - 1)

Encode(id, t) ==
    IF t = None THEN id
    ELSE id \o <<"x">>
            \o [i \in 1..6 |-> UpperHexChars[((t[1] \div Pow16(6 - i)) % 16) + 1]]

ValidSlugs == {Encode(id, t) : id \in IdPool, t \in TapOptions}

\* Strings next to a valid slug: a character dropped, added or replaced.
SlugVariants(v) ==
    {v,
     SubSeq(v, 1, Len(v) - 1), SubSeq(v, 2, Len(v)),
     v \o <<"0">>, v \o <<"\n">>, v \o <<"x">>, v \o <<"x", "0", "0">>,
     <<"0">> \o v, <<"/">> \o v,
     Subst(v, 1, "a"), Subst(v, Len(v), "f"), Subst(v, 3, "G"), Subst(v, 2, "é"),
     Subst(v, Len(v) - 6, "X"), Subst(v, Len(v) - 6, "x"), Subst(v, Len(v) - 6, "-")}

\* A tap count written with fewer or more than six digits.
SlugOddWidth ==
    {Hex14_as_str(id) \o <<"x">> \o UpperHexOf(t) : id \in IdPool, t \in TapPool}
    \cup {Hex14_as_str(id) \o <<"x">> \o ZeroPad(UpperHexOf(t), SlugTapLen + 1) :
            id \in IdPool, t \in TapPool}

SlugInputs == {<<>>} \cup SlugOddWidth \cup UNION {SlugVariants(v) : v \in ValidSlugs}

LowerOf(s) == [i \in 1..Len(s) |-> LowerHexChars[HexDigitValue(s[i]) + 1]]

\* The id query parameters of the creation requests: a canonical id, the same
\* id in lowercase, and a string that is no id at all.
CreateIds == {PoolId(0), LowerOf(PoolId(0)), <<"z", "z">>}

UrlA == <<"h","t","t","p","s",":","/","/","a",".","e","x">>

UrlB == <<"h","t","t","p","s",":","/","/","b",".","e","x">>

QueryTaps == {None, Some(15)}

FormTaps == {None, Some(2)}

\* The slugs of the lookups that run beside creation requests: the two ids
\* without and with a tap count, and malformed slugs.
ServiceSlugs ==
    {<<>>, LowerOf(PoolId(0)), PoolId(0) \o <<"x">>}
    \cup {Encode(PoolId(k), t) : k \in {0, 1}, t \in {None, Some(15)}}

\* The tables a lookup may meet: rows that creation requests have stored.
StoredRows ==
    {[id |-> PoolId(0), target_url |-> u, access_count |-> 1] : u \in {UrlA, UrlB}}

LookupStores == {rows \in SUBSET StoredRows : Cardinality(rows) <= MaxRows}

QueryUrls == {None, Some(UrlA)}

FormUrls == {None, Some(UrlB)}

-----------------------------------------------------------------------------
(* get_tag_by_id.  The handler runs to its first await in one step, and    *)
(* each await (the pool, the query) is a step of its own, so that creation *)
(* requests of other clients may run in between.                           *)

LookupDecodeEager(param) ==
    /\ lkPc = "idle"
    /\ lkParam' = param
    /\ lkTag' = None
    /\ lkAcquires' = 1
    /\ lkFetches' = 0
    /\ LET caps == regex_captures(param)
           id == Hex14_new(caps.id_str)
       IN  IF ~caps.matched
           THEN /\ lkResp' = StatusOnly("BAD_REQUEST")
                /\ lkPc' = "done"
                /\ lkId' = None
                /\ lkTap' = None
           ELSE IF id.tag # "Ok"
           THEN /\ lkResp' = StatusOnly("BAD_REQUEST")
                /\ lkPc' = "done"
                /\ lkId' = None
                /\ lkTap' = None
           ELSE /\ lkResp' = NoResponse
                /\ lkPc' = "acquire"
                /\ lkId' = Some(id.val)
                /\ lkTap' = tap_count_of(caps.tap_count_str)
    /\ UNCHANGED <<hexVars, store, crVars, nVars, vVars>>

\* Lines 304-316, and the pool.acquire() call being issued.
LookupDecode(param) ==
    /\ lkPc = "idle"
    /\ lkParam' = param
    /\ lkTag' = None
    /\ lkAcquires' = 0
    /\ lkFetches' = 0
    /\ LET caps == regex_captures(param)
           id == Hex14_new(caps.id_str)
       IN  IF ~caps.matched
           THEN /\ lkResp' = StatusOnly("BAD_REQUEST")
                /\ lkPc' = "done"
                /\ lkId' = None
                /\ lkTap' = None
           ELSE IF id.tag # "Ok"
           THEN /\ lkResp' = StatusOnly("BAD_REQUEST")
                /\ lkPc' = "done"
                /\ lkId' = None
                /\ lkTap' = None
           ELSE /\ lkResp' = NoResponse
                /\ lkPc' = "acquire"
                /\ lkId' = Some(id.val)
                /\ lkTap' = tap_count_of(caps.tap_count_str)
    /\ UNCHANGED <<hexVars, store, crVars, nVars, vVars>>

\* Lines 318-321: state.pool.acquire().await, which may fail.
LookupAcquire ==
    /\ lkPc = "acquire"
    /\ lkAcquires' = lkAcquires + 1
    /\ \/ /\ lkPc' = "fetch"
          /\ lkResp' = lkResp
       \/ /\ lkPc' = "done"
          /\ lkResp' = StatusOnly("INTERNAL_SERVER_ERROR")
    /\ UNCHANGED <<hexVars, nVars, vVars, store, crVars, lkParam, lkId, lkTap, lkTag, lkFetches>>

\* Lines 323-341: the query, which may fail, and the redirect decision.
LookupFetch ==
    /\ lkPc = "fetch"
    /\ lkFetches' = lkFetches + 1
    /\ lkPc' = "done"
    /\ \/ /\ lkTag' = None
          /\ lkResp' = StatusOnly("INTERNAL_SERVER_ERROR")
       \/ /\ RowsFor(store, lkId[1]) = {}
          /\ lkTag' = None
          /\ lkResp' = RedirectTemporary(create_url(lkId[1], lkTap))
       \/ \E tag \in RowsFor(store, lkId[1]) :
            /\ lkTag' = Some(tag)
            /\ lkResp' = RedirectPermanent(tag.target_url)
    /\ UNCHANGED <<hexVars, nVars, vVars, store, crVars, lkParam, lkId, lkTap, lkAcquires>>

\* The response is sent; the next request may come.
LookupReturn ==
    /\ lkPc = "done"
    /\ lkPc' = "idle"
    /\ lkParam' = <<>>
    /\ lkId' = None
    /\ lkTap' = None
    /\ lkTag' = None
    /\ lkResp' = NoResponse
    /\ lkAcquires' = 0
    /\ lkFetches' = 0
    /\ UNCHANGED <<hexVars, store, crVars, nVars, vVars>>

-----------------------------------------------------------------------------
(* The creation handlers.  The query string and the form arrive            *)
(* deserialized: id through Hex14's derived Deserialize, the tap counts    *)
(* and URLs as the options given.                                          *)

\* create_tag_page
CreateTagPage(idParam, qTap, qUrl) ==
    /\ crId' = Some(Hex14_deserialize(idParam))
    /\ crInsert' = None
    /\ crResp' = StatusOnly("OK")
    /\ UNCHANGED <<hexVars, nVars, vVars, store, lkVars>>

\* create_tag
CreateTag(idParam, qTap, fTap, qUrl, fUrl) ==
    LET id == Hex14_deserialize(idParam)
        tap_count == UnwrapOr(OptionOr(fTap, qTap), 1)
        target_url == OptionOr(fUrl, qUrl)
        row == [id |-> id, target_url |-> target_url[1], access_count |-> tap_count]
    IN  /\ crId' = Some(id)
        /\ IF target_url = None
           THEN /\ crResp' = StatusOnly("BAD_REQUEST")
                /\ crInsert' = None
                /\ store' = store
           ELSE \/ \* pool.acquire() fails
                   /\ crResp' = StatusOnly("INTERNAL_SERVER_ERROR")
                   /\ crInsert' = None
                   /\ store' = store
                \/ \* the INSERT fails
                   /\ crResp' = StatusOnly("INTERNAL_SERVER_ERROR")
                   /\ crInsert' = Some(row)
                   /\ store' = store
                \/ \* the INSERT succeeds
                   /\ Cardinality(store) < MaxRows
                   /\ crResp' = StatusOnly("OK")
                   /\ crInsert' = Some(row)
                   /\ store' = store \cup {row}
        /\ UNCHANGED <<hexVars, nVars, vVars, lkVars>>

Init ==
    /\ ServiceIdle
    /\ hexInput = <<>>
    /\ hexResult = NoResult
    /\ hexAgain = NoResult
    /\ NotionIdle
    /\ ValidationIdle

Next ==
    \/ \E param \in ServiceSlugs : LookupDecode(param)
    \/ LookupAcquire
    \/ LookupFetch
    \/ LookupReturn
    \/ \E idParam \in CreateIds, qTap \in QueryTaps, qUrl \in QueryUrls :
         CreateTagPage(idParam, qTap, qUrl)
    \/ \E idParam \in CreateIds, qTap \in QueryTaps, fTap \in FormTaps,
          qUrl \in QueryUrls, fUrl \in FormUrls :
         CreateTag(idParam, qTap, fTap, qUrl, fUrl)

Spec == Init /\ [][Next]_vars

(* The lookup handler alone, over every slug of SlugInputs and every table *)
(* of LookupStores.                                                        *)

LookupInit ==
    /\ Init!2 /\ Init!3 /\ Init!4 /\ Init!5 /\ Init!6
    /\ lkPc = "idle"
    /\ lkParam = <<>>
    /\ lkId = None
    /\ lkTap = None
    /\ lkTag = None
    /\ lkResp = NoResponse
    /\ lkAcquires = 0
    /\ lkFetches = 0
    /\ crId = None
    /\ crInsert = None
    /\ crResp = NoResponse
    /\ store \in LookupStores

LookupNext ==
    \/ \E param \in SlugInputs : LookupDecode(param)
    \/ LookupAcquire
    \/ LookupFetch
    \/ LookupReturn

SpecLookup == LookupInit /\ [][LookupNext]_vars

-----------------------------------------------------------------------------
(* Properties of the lookup handler *)

UpperHexSet == {"0","1","2","3","4","5","6","7","8","9","A","B","C","D","E","F"}

\* The slug grammar: 14 characters of 0-9A-F, then nothing or "x" and 6 more.
SlugGrammar(s) ==
    \/ /\ Len(s) = 14
       /\ \A i \in 1..14 : s[i] \in UpperHexSet
    \/ /\ Len(s) = 21
       /\ \A i \in 1..14 : s[i] \in UpperHexSet
       /\ s[15] = "x"
       /\ \A i \in 16..21 : s[i] \in UpperHexSet

Decoded == lkId # None

Rejected ==
    /\ lkPc = "done"
    /\ lkResp = StatusOnly("BAD_REQUEST")
    /\ lkId = None
    /\ lkTap = None

\* C1: get_tag_by_id decodes the path parameter if and only if the whole of it is
\* 14 characters of 0-9A-F, optionally followed by "x" and exactly 6 characters
\* of 0-9A-F; every other string ends in BAD_REQUEST with neither an id nor a tap
\* count parsed.
C1_StrictSlugDecoding ==
    lkPc # "idle" =>
        /\ SlugGrammar(lkParam) => Decoded /\ lkResp.status # "BAD_REQUEST"
        /\ ~SlugGrammar(lkParam) => Rejected

\* C1's case: a valid slug followed by one more character has been rejected.
C1_Witness ==
    /\ Rejected
    /\ Len(lkParam) = 22
    /\ SlugGrammar(SubSeq(lkParam, 1, 21))

\* C2: decoding the slug that encodes (id, t) returns exactly (id, t), for every
\* id of the pool and every tap count option; and every slug that decodes is the
\* encoding of what it decodes to, with a tap count in 0..0xFFFFFF.
C2_RoundTrip ==
    lkPc # "idle" =>
        /\ \A id \in IdPool, t \in TapOptions :
             lkParam = Encode(id, t) => lkId = Some(id) /\ lkTap = t
        /\ Decoded =>
             /\ lkTap # None => lkTap[1] \in 0..16777215
             /\ Encode(lkId[1], lkTap) = lkParam

\* C2's case: the slug of an id with tap count 15 has been decoded.
C2_Witness ==
    /\ Decoded
    /\ lkTap = Some(15)
    /\ lkParam = Encode(lkId[1], Some(15))
    /\ SubSeq(lkParam, 15, 21) = <<"x","0","0","0","0","0","F">>

\* C4: a temporary redirect goes to /tag/create?id=<the slug's 14 characters>,
\* followed by &tap_count=<the slug's own six digits> exactly when the slug has
\* the suffix; a slug without the suffix decodes to no tap count.
C4_CreationRedirect ==
    /\ Decoded /\ Len(lkParam) = 14 => lkTap = None
    /\ Decoded /\ Len(lkParam) # 14 => lkTap # None
    /\ lkResp.status = "TEMPORARY_REDIRECT" =>
         lkResp.location =
            <<"/","t","a","g","/","c","r","e","a","t","e","?","i","d","=">>
            \o SubSeq(lkParam, 1, 14)
            \o (IF Len(lkParam) > 14
                THEN <<"&","t","a","p","_","c","o","u","n","t","=">>
                     \o SubSeq(lkParam, 16, 21)
                ELSE <<>>)

\* C4's case: a lookup of an unknown id with tap count 15 was redirected.
C4_Witness ==
    /\ lkResp.status = "TEMPORARY_REDIRECT"
    /\ lkTap = Some(15)
    /\ SubSeq(lkResp.location, Len(lkResp.location) - 16, Len(lkResp.location))
         = <<"&","t","a","p","_","c","o","u","n","t","=","0","0","0","0","0","F">>

IsRedirect(resp) == resp.status \in {"PERMANENT_REDIRECT", "TEMPORARY_REDIRECT"}

C13_State ==
    /\ (lkPc # "idle" /\ ~SlugGrammar(lkParam)) =>
          lkAcquires = 0 /\ lkFetches = 0 /\ lkPc = "done" /\ lkResp.status = "BAD_REQUEST"
    /\ lkResp.status = "BAD_REQUEST" => lkAcquires = 0 /\ lkFetches = 0
    /\ lkAcquires > 0 => Decoded /\ lkId[1] = SubSeq(lkParam, 1, 14)
    /\ lkFetches > 0 => lkAcquires = 1
    /\ IsRedirect(lkResp) => lkFetches = 1 /\ Decoded /\ lkPc = "done"

C13_Step ==
    /\ lkAcquires' > lkAcquires => Decoded /\ lkFetches = 0
    /\ lkFetches' > lkFetches => Decoded /\ lkAcquires = 1
    /\ (~IsRedirect(lkResp) /\ IsRedirect(lkResp')) =>
          /\ lkFetches' = lkFetches + 1
          /\ lkId' = lkId
          /\ lkResp'.status = "PERMANENT_REDIRECT" <=> RowsFor(store, lkId[1]) # {}

\* C13: in get_tag_by_id decoding comes before the store: for a malformed slug no
\* connection is acquired and no query issued, before or at BAD_REQUEST; a
\* connection is acquired only for a decoded id and the query issued only after
\* the connection; and a redirect, permanent or temporary, is decided only in the
\* step that completes the query for the decoded id.
C13_DecodeBeforeStore ==
    /\ []C13_State
    /\ [][C13_Step]_vars

\* C13's case: a slug with a lower-case digit was refused with the pool
\* untouched.
C13_Witness ==
    /\ lkPc = "done"
    /\ lkResp.status = "BAD_REQUEST"
    /\ Len(lkParam) = 14
    /\ \E i \in 1..14 : lkParam[i] \in {"a","b","c","d","e","f"}
    /\ lkAcquires = 0
    /\ lkFetches = 0

-----------------------------------------------------------------------------
(* Properties of the service *)

HasRecord(id) == \E r \in store : r.id = id

\* C3, as claimed: a lookup that has returned ended in BAD_REQUEST (the slug did
\* not decode), a permanent redirect or a temporary redirect, and nothing else.
C3_ThreeOutcomes ==
    lkPc = "done" =>
        /\ lkResp.status \in {"BAD_REQUEST", "PERMANENT_REDIRECT", "TEMPORARY_REDIRECT"}
        /\ lkResp.status = "BAD_REQUEST" <=> ~Decoded

C3_Done ==
    lkPc = "done" =>
        /\ lkAcquires <= 1
        /\ lkFetches <= 1
        /\ lkResp.status \in {"BAD_REQUEST", "INTERNAL_SERVER_ERROR",
                              "PERMANENT_REDIRECT", "TEMPORARY_REDIRECT"}
        /\ lkResp.status = "BAD_REQUEST" <=> ~Decoded
        /\ lkResp.status = "BAD_REQUEST" => lkAcquires = 0 /\ lkFetches = 0
        /\ lkResp.status = "INTERNAL_SERVER_ERROR" => lkAcquires = 1
        /\ lkResp.status = "PERMANENT_REDIRECT" =>
             /\ lkFetches = 1
             /\ \E r \in store : r.id = lkId[1] /\ lkResp.location = r.target_url
        /\ lkResp.status = "TEMPORARY_REDIRECT" =>
             /\ lkFetches = 1
             /\ SubSeq(lkResp.location, 1, 11) = <<"/","t","a","g","/","c","r","e","a","t","e">>

C3_Decision ==
    (lkPc = "fetch" /\ lkPc' = "done" /\ lkResp'.status # "INTERNAL_SERVER_ERROR") =>
        /\ HasRecord(lkId[1]) <=> lkResp'.status = "PERMANENT_REDIRECT"
        /\ ~HasRecord(lkId[1]) <=> lkResp'.status = "TEMPORARY_REDIRECT"

C3_OneHop ==
    lkPc' # lkPc =>
        <<lkPc, lkPc'>> \in {<<"idle", "acquire">>, <<"idle", "done">>,
                             <<"acquire", "fetch">>, <<"acquire", "done">>,
                             <<"fetch", "done">>, <<"done", "idle">>}

\* C3, amended: a lookup passes once through decoding, the pool and the query,
\* never back, and ends in one of four outcomes: BAD_REQUEST exactly when the slug
\* did not decode (the pool and the table untouched), INTERNAL_SERVER_ERROR only
\* after the pool or the query failed, and, when the query answered, a permanent
\* redirect to a stored record's target URL exactly when the table holds a record
\* of the id, a temporary redirect to the creation path exactly when it holds none.
C3_FourOutcomes ==
    /\ []C3_Done
    /\ [][C3_Decision]_vars
    /\ [][C3_OneHop]_vars

\* C3's case: a lookup found a stored record and redirected to its target.
C3_Witness ==
    /\ lkPc = "done"
    /\ lkResp.status = "PERMANENT_REDIRECT"
    /\ lkTag # None
    /\ lkResp.location = lkTag[1].target_url

\* A canonical Hex14: 14 characters, each of 0-9A-F.
CanonicalHex14(h) == Len(h) = 14 /\ \A i \in 1..14 : h[i] \in UpperHexSet

OptionValues(o) == {o[i] : i \in 1..Len(o)}

\* Every Hex14 the state holds: the lookup's id, the creation request's id, the
\* rows' ids, and what Hex14::new returned.
Hex14Values ==
    OptionValues(lkId) \cup OptionValues(crId)
    \cup {r.id : r \in store \cup OptionValues(lkTag) \cup OptionValues(crInsert)}
    \cup (IF hexResult.tag = "Ok" THEN {hexResult.val} ELSE {})
    \cup (IF hexAgain.tag = "Ok" THEN {hexAgain.val} ELSE {})

\* C7: every Hex14 value of the state has exactly 14 characters, all of them
\* uppercase ASCII hex digits; create_tag hands the table no other id.
C7_EveryHex14Canonical == \A h \in Hex14Values : CanonicalHex14(h)

-----------------------------------------------------------------------------
(* Inputs of Hex14::new *)

\* The longest input is Hex14Len + HexExtraLen characters long.
HexExtraLen == 2

\* How many of the first characters of an input may be replaced.
HexSubstPositions == 3

BaseLower == <<"a","1","b","2","c","3","d","4","e","5","f","6","7","8","9","0">>

BaseUpper == <<"A","1","B","2","C","3","D","4","E","5","F","6","7","8","9","0">>

BaseMixed == <<"a","1","B","2","c","3","D","4","E","5","f","6","7","8","9","0">>

Cyc(base, n) == [i \in 1..n |-> base[((i - 1) % Len(base)) + 1]]

\* Characters that are not ASCII hex digits.
OddChars == {"G", "g", "x", "-", "é"}

HexLengths == 0..(Hex14Len + HexExtraLen)

HexPlain == {Cyc(b, n) : b \in {BaseLower, BaseUpper, BaseMixed}, n \in HexLengths}

\* One character replaced, anywhere.
HexOneOdd ==
    UNION {{Subst(s, i, c) : i \in 1..Len(s), c \in OddChars} : s \in HexPlain}

\* Two characters replaced by two different odd characters, among the first
\* HexSubstPositions positions and the last position.
HexTwoOdd ==
    UNION {{Subst(Subst(s, p[1], p[2]), Len(s), p[3]) :
              p \in {q \in (1..HexSubstPositions) \X OddChars \X OddChars : q[2] # q[3]}}
           : s \in {t \in HexPlain : Len(t) > HexSubstPositions}}

Hex14Inputs == HexPlain \cup HexOneOdd \cup HexTwoOdd

-----------------------------------------------------------------------------
(* The identifier specification: Hex14::new applied to an input, and then  *)
(* to the rendering of what it returned.                                   *)

HexInit ==
    /\ hexInput \in Hex14Inputs
    /\ hexResult = NoResult
    /\ hexAgain = NoResult
    /\ ServiceIdle
    /\ NotionIdle
    /\ ValidationIdle

Hex14New ==
    /\ hexResult = NoResult
    /\ hexResult' = Hex14_new(hexInput)
    /\ UNCHANGED <<hexInput, hexAgain, store, lkVars, crVars, nVars, vVars>>

Hex14Reparse ==
    /\ hexResult.tag = "Ok"
    /\ hexAgain = NoResult
    /\ hexAgain' = Hex14_new(Hex14_as_str(hexResult.val))
    /\ UNCHANGED <<hexInput, hexResult, store, lkVars, crVars, nVars, vVars>>

HexNext == Hex14New \/ Hex14Reparse

SpecHex14 == HexInit /\ [][HexNext]_vars

-----------------------------------------------------------------------------
(* Properties of Hex14::new *)

HasNonHex(s) == \E i \in 1..Len(s) : s[i] \notin UpperHexSet \cup {"a","b","c","d","e","f"}

\* C5: an input that is not 14 characters long fails with InvalidLength carrying
\* its length (counted in characters or in bytes), and an input of 14 characters
\* one of which is no ASCII hex digit, ASCII or not, fails with InvalidCharacter
\* carrying the first such character.
C5_LengthThenCharacter ==
    hexResult # NoResult =>
        /\ Len(hexInput) # 14 =>
             /\ hexResult.err = "InvalidLength"
             /\ hexResult.len \in {Len(hexInput), ByteLen(hexInput)}
        /\ Len(hexInput) = 14 /\ HasNonHex(hexInput) =>
             /\ hexResult.err = "InvalidCharacter"
             /\ \E i \in 1..14 :
                  /\ hexResult.ch = hexInput[i]
                  /\ ~HasNonHex(SubSeq(hexInput, 1, i - 1))
                  /\ HasNonHex(<<hexInput[i]>>)

\* The value of a hex digit, of either case.
DigitValue(c) == CHOOSE v \in 0..15 : c = UpperHexChars[v + 1] \/ c = LowerHexChars[v + 1]

\* C6: for an input of 14 ASCII hex digits of any case, Hex14::new succeeds and
\* the value reads, digit by digit, as the input in uppercase; and Hex14::new of
\* that value's text succeeds with an equal value.
C6_UppercaseAndIdempotent ==
    /\ (hexResult # NoResult /\ Len(hexInput) = 14 /\ ~HasNonHex(hexInput)) =>
         /\ hexResult.tag = "Ok"
         /\ Len(hexResult.val) = 14
         /\ \A i \in 1..14 :
              hexResult.val[i] = UpperHexChars[DigitValue(hexInput[i]) + 1]
    /\ hexAgain # NoResult =>
         hexAgain.tag = "Ok" /\ hexAgain.val = hexResult.val

\* C6's case: an input with lowercase digits was parsed, and its text parsed again.
C6_Witness ==
    /\ hexAgain.tag = "Ok"
    /\ hexInput # hexResult.val
    /\ \E i \in 1..Len(hexInput) : hexInput[i] \in {"a","b","c","d","e","f"}

-----------------------------------------------------------------------------
(* Inputs of NotionPageId::new *)

\* At most this many "workspace" segments come before the last segment of a URL.
MaxPrefixSegments == 1

\* At most this many slashes follow the last segment of a URL.
MaxTrailingSlashes == 1

\* a1b2c3d4e5f67890abcdef1234567890
BaseId == <<"a","1","b","2","c","3","d","4","e","5","f","6","7","8","9","0","a","b","c","d","e","f","1","2","3","4","5","6","7","8","9","0">>

Hyphenate(t) ==
    SubSeq(t, 1, 8) \o <<"-">> \o SubSeq(t, 9, 12) \o <<"-">> \o SubSeq(t, 13, 16)
    \o <<"-">> \o SubSeq(t, 17, 20) \o <<"-">> \o SubSeq(t, 21, 32)

MixedId == [i \in 1..32 |-> IF i % 3 = 0 THEN BaseId[i] ELSE ToUpperChar(BaseId[i])]

\* Segments that may stand in a URL path as they are.
PathSafeSegments ==
    {BaseId, to_uppercase(BaseId), MixedId,
     Hyphenate(BaseId), Hyphenate(to_uppercase(BaseId)), Hyphenate(MixedId),
     <<"p","a","g","e","-">> \o BaseId,
     <<"M","y","-","P","a","g","e","-">> \o to_uppercase(BaseId),
     <<"p","a","g","e","-">> \o Hyphenate(BaseId),
     <<"s","o","m","e","-","p","a","g","e">>,
     <<"p","a","g","e","-","w","i","t","h","-","s","h","o","r","t","-","i","d","-">> \o SubSeq(BaseId, 1, 16),
     Subst(BaseId, 1, "g"),
     <<"p","a","g","e","-">> \o Subst(BaseId, 1, "g"),
     Subst(Hyphenate(BaseId), 36, "g"),
     SubSeq(BaseId, 1, 31),
     BaseId \o <<"0">>,
     <<"x">> \o Hyphenate(BaseId),
     SubSeq(BaseId, 1, 4) \o <<"-">> \o SubSeq(BaseId, 5, 32),
     SubSeq(Hyphenate(BaseId), 1, 23),
     UrnPrefix \o Hyphenate(BaseId)}

\* Inputs that are no URL: braces and characters outside ASCII.
BareOnlySegments ==
    {<<>>,
     <<"{">> \o Hyphenate(BaseId) \o <<"}">>,
     <<"é">> \o SubSeq(BaseId, 1, 31),
     <<"é">> \o BaseId,
     <<"c","a","f","é","-">> \o BaseId,
     <<"n","o","t","-","a","-","v","a","l","i","d","-","u","u","i","d","-","a","t","-","a","l","l">>}

UrlHosts ==
    {<<"w","w","w",".","n","o","t","i","o","n",".","s","o">>,
     <<"W","W","W",".","N","O","T","I","O","N",".","S","O">>,
     <<"n","o","t","i","o","n",".","s","o">>,
     <<"s","u","b",".","w","w","w",".","n","o","t","i","o","n",".","s","o">>,
     <<"w","w","w",".","n","o","t","i","o","n",".","s","o",".","e","x","a","m","p","l","e",".","c","o","m">>,
     <<"e","x","a","m","p","l","e",".","c","o","m">>,
     <<"1","2","7",".","0",".","0",".","1">>}

UrlTails == {<<>>, <<"?","v","=","a","b","c","1","2","3","&","f","o","o","=","b","a","r","#","s","e","c","t","i","o","n">>}

Repeat(x, n) == [i \in 1..n |-> x]

UrlPaths ==
    {Repeat(<<"w","o","r","k","s","p","a","c","e">>, k) \o last \o Repeat(<<>>, j) :
        k \in 0..MaxPrefixSegments,
        last \in {<<>>} \cup {<<g>> : g \in PathSafeSegments},
        j \in 0..MaxTrailingSlashes}

NoParts == [kind |-> "none"]

UrlParts ==
    {[kind |-> "url", scheme |-> <<"h","t","t","p","s">>, host |-> h, segs |-> p, tail |-> t, text |-> <<>>] :
        h \in UrlHosts, p \in UrlPaths, t \in UrlTails}

\* scheme:text, a URL without a host
OpaqueParts ==
    {[kind |-> "opaque", scheme |-> <<"u","r","n">>, host |-> <<>>, segs |-> <<>>, tail |-> <<>>,
      text |-> <<"u","u","i","d",":">> \o Hyphenate(BaseId)],
     [kind |-> "opaque", scheme |-> <<"n","o","t","i","o","n">>, host |-> <<>>, segs |-> <<>>, tail |-> <<>>,
      text |-> BaseId]}

BareParts ==
    {[kind |-> "bare", scheme |-> <<>>, host |-> <<>>, segs |-> <<>>, tail |-> <<>>, text |-> g] :
        g \in (PathSafeSegments \ {UrnPrefix \o Hyphenate(BaseId)}) \cup BareOnlySegments}

NotionParts == UrlParts \cup OpaqueParts \cup BareParts

RECURSIVE JoinPath(_)
JoinPath(segs) == IF segs = <<>> THEN <<>> ELSE <<"/">> \o Head(segs) \o JoinPath(Tail(segs))

\* The input string written from its pieces.
Render(parts) ==
    CASE parts.kind = "url" ->
           parts.scheme \o <<":", "/", "/">> \o parts.host \o JoinPath(parts.segs) \o parts.tail
      [] parts.kind = "opaque" -> parts.scheme \o <<":">> \o parts.text
      [] OTHER -> parts.text

-----------------------------------------------------------------------------
(* The specification of NotionPageId::new applied to an input. *)

NotionInit ==
    /\ Init!1 /\ Init!2 /\ Init!3 /\ Init!4 /\ Init!6
    /\ nParts \in NotionParts
    /\ nInput = Render(nParts)
    /\ nSegment = None
    /\ nExtract = NoNotion
    /\ nResult = NoNotion
    /\ nAgain = NoReparse

NotionNew ==
    /\ nResult = NoNotion
    /\ LET c == CandidateSegment(nInput)
       IN  /\ nSegment' = c.segment
           /\ nExtract' = IF c.segment = None THEN NoNotion
                          ELSE extract_id_from_segment(c.segment[1])
    /\ nResult' = NotionPageId_new(nInput)
    /\ UNCHANGED <<hexVars, store, lkVars, crVars, nParts, nInput, nAgain, vVars>>

\* NotionPageId::new applied again to the value it returned: to as_str(), to
\* as_raw(), and to each of them in upper case.
NotionReparse ==
    /\ nResult.tag = "Ok"
    /\ ~nAgain.done
    /\ LET texts == [canonical |-> nResult.val,
                     raw |-> NotionPageId_as_raw(nResult.val),
                     upper |-> to_uppercase(nResult.val),
                     rawUpper |-> to_uppercase(NotionPageId_as_raw(nResult.val))]
       IN  nAgain' = [done |-> TRUE,
                      results |-> [k \in ReparseKinds |-> NotionPageId_new(texts[k])]]
    /\ UNCHANGED <<hexVars, store, lkVars, crVars, nParts, nInput, nSegment, nExtract, nResult, vVars>>

NotionNext == NotionNew \/ NotionReparse

SpecNotion == NotionInit /\ [][NotionNext]_vars

-----------------------------------------------------------------------------
(* Properties of NotionPageId::new *)

ProviderHostSpellings ==
    {<<"w","w","w",".","n","o","t","i","o","n",".","s","o">>, <<"W","W","W",".","N","O","T","I","O","N",".","S","O">>}

OnProviderHost == nParts.kind = "url" /\ nParts.host \in ProviderHostSpellings

\* C8: an input that is an absolute URL is accepted only on host www.notion.so:
\* with any other host, or none, NotionPageId::new fails with InvalidFormat
\* whatever the path holds, and on that host it never fails with InvalidFormat.
C8_ExactProviderHost ==
    (nResult # NoNotion /\ nParts.kind \in {"url", "opaque"}) =>
        IF OnProviderHost
        THEN nResult.err # "InvalidFormat"
        ELSE nResult = [tag |-> "Err", val |-> <<>>, err |-> "InvalidFormat", input |-> nInput]

\* C8's case: a URL on a subdomain of the provider whose path ends with an id
\* was refused.
C8_Witness ==
    /\ nResult.err = "InvalidFormat"
    /\ nParts.kind = "url"
    /\ nParts.host = <<"s","u","b",".","w","w","w",".","n","o","t","i","o","n",".","s","o">>
    /\ nParts.segs = <<BaseId>>

FilledSegments(segs) == SelectSeq(segs, LAMBDA g : g # <<>>)

\* C9: for a URL on the provider host the segment the id is extracted from is
\* the last non-empty segment of the path, and NotionPageId::new fails with
\* MissingPageId exactly when the path has no non-empty segment.
C9_LastNonEmptySegment ==
    (nResult # NoNotion /\ OnProviderHost) =>
        LET filled == FilledSegments(nParts.segs)
        IN  /\ nResult.err = "MissingPageId" <=> filled = <<>>
            /\ filled # <<>> => nSegment = Some(filled[Len(filled)])

HexSet == UpperHexSet \cup {"a","b","c","d","e","f"}

AllHex(t) == \A i \in 1..Len(t) : t[i] \in HexSet

WithoutHyphens(t) == SelectSeq(t, LAMBDA c : c # "-")

\* 32 hex characters, or 8-4-4-4-12 hex characters with hyphens between
DirectForm(g) ==
    \/ Len(g) = 32 /\ AllHex(g)
    \/ /\ Len(g) = 36
       /\ g[9] = "-" /\ g[14] = "-" /\ g[19] = "-" /\ g[24] = "-"
       /\ Len(WithoutHyphens(g)) = 32
       /\ AllHex(WithoutHyphens(g))

\* longer than 32 characters without its hyphens, the last 32 of them hex
SuffixForm(g) ==
    LET c == WithoutHyphens(g)
    IN  Len(c) > 32 /\ AllHex(SubSeq(c, Len(c) - 31, Len(c)))

ExpectedDigits(g) ==
    LET c == WithoutHyphens(g)
    IN  [i \in 1..32 |-> LowerHexChars[DigitValue(c[Len(c) - 32 + i]) + 1]]

\* C10: extraction from a segment succeeds exactly when the segment is 32 hex
\* characters or a hyphenated 8-4-4-4-12 UUID, or else when it is longer than 32
\* characters without its hyphens and its last 32 characters are hex; the id is
\* those 32 digits; every other segment fails with InvalidId.
C10_TwoExtractionCases ==
    nSegment # None =>
        LET g == nSegment[1]
        IN  IF DirectForm(g) \/ SuffixForm(g)
            THEN nExtract.tag = "Ok" /\ nExtract.val = ExpectedDigits(g)
            ELSE nExtract.tag = "Err" /\ nExtract.err = "InvalidId"

LowerHexSet == {"0","1","2","3","4","5","6","7","8","9","a","b","c","d","e","f"}

\* 36 characters: lowercase hex digits in groups of 8-4-4-4-12, a hyphen between
CanonicalPageId(v) ==
    /\ Len(v) = 36
    /\ \A i \in 1..36 : IF i \in {9, 14, 19, 24} THEN v[i] = "-" ELSE v[i] \in LowerHexSet

RawPageId(v) == Len(v) = 32 /\ \A i \in 1..32 : v[i] \in LowerHexSet

\* C11: the value of every NotionPageId that NotionPageId::new returns is 36
\* characters, lowercase hex digits grouped 8-4-4-4-12 by hyphens, and spells
\* the digits of the segment it was extracted from; as_raw is those 32 digits
\* without the hyphens; NotionPageId::new of the value, of as_raw, and of either
\* in upper case returns an equal NotionPageId.
C11_CanonicalPageId ==
    nResult.tag = "Ok" =>
        /\ CanonicalPageId(nResult.val)
        /\ nSegment # None
        /\ (DirectForm(nSegment[1]) \/ SuffixForm(nSegment[1])) =>
              nResult.val = Hyphenate(ExpectedDigits(nSegment[1]))
        /\ RawPageId(NotionPageId_as_raw(nResult.val))
        /\ NotionPageId_as_raw(nResult.val) = WithoutHyphens(nResult.val)
        /\ nAgain.done =>
              \A k \in ReparseKinds : nAgain.results[k] = nResult

\* C11's case: an upper-case id after a page name in a URL was accepted and its
\* value parsed again.
C11_Witness ==
    /\ nParts.kind = "url"
    /\ nParts.segs = <<<<"M","y","-","P","a","g","e","-">> \o to_uppercase(BaseId)>>
    /\ nResult.tag = "Ok"
    /\ nResult.val = Hyphenate(BaseId)
    /\ nAgain.done
    /\ nAgain.results["raw"] = nResult

\* the typed errors of the two constructors
Hex14Errors == {"InvalidLength", "InvalidCharacter"}

NotionPageIdErrors == {"InvalidFormat", "MissingPageId", "InvalidId"}

\* C14: Hex14::new and NotionPageId::new return, for every input, either a
\* valid identifier or one of their typed errors; neither panics.
C14_ParsingIsTotal ==
    /\ hexResult # NoResult =>
          \/ hexResult.tag = "Ok" /\ CanonicalHex14(hexResult.val)
          \/ hexResult.tag = "Err" /\ hexResult.err \in Hex14Errors
    /\ nResult # NoNotion =>
          \/ nResult.tag = "Ok" /\ CanonicalPageId(nResult.val)
          \/ nResult.tag = "Err" /\ nResult.err \in NotionPageIdErrors
    /\ nExtract # NoNotion =>
          \/ nExtract.tag = "Ok" /\ RawPageId(nExtract.val)
          \/ nExtract.tag = "Err" /\ nExtract.err \in NotionPageIdErrors

-----------------------------------------------------------------------------
(* Startup validation: its inputs and its steps *)

\* NOTION_THINGS_DB, NOTION_CONTAINERS_DB and a third database, as NotionPageId
ThingsDb == Hyphenate(BaseId)

ContainersDb == Hyphenate(Subst(BaseId, 1, "b"))

OtherDb == Hyphenate(Subst(BaseId, 1, "c"))

\* NOTION_THINGS_COLUMN_NAME, NOTION_CONTAINERS_COLUMN_NAME
ColumnNames == {<<"I","n">>, <<"H","o","l","d","s">>}

\* What a property of a retrieved schema may be.
PropertyValues ==
    {Relation(None), Relation(Some(ThingsDb)), Relation(Some(ContainersDb)), Relation(Some(OtherDb)),
     OtherProperty("title")}

\* Every schema over some of the column names.
Schemas == UNION {[names -> PropertyValues] : names \in SUBSET ColumnNames}

\* What retrieve_a_database may answer.
Answers == {RetrieveErr} \cup {Retrieved(properties) : properties \in Schemas}

ValidateInit ==
    /\ Init!1 /\ Init!2 /\ Init!3 /\ Init!4 /\ Init!5
    /\ vIn \in [things_db : {ThingsDb}, containers_db : {ContainersDb},
                things_column_name : ColumnNames, containers_column_name : ColumnNames,
                things : Answers, containers : Answers]
    /\ vPc = "idle"
    /\ vRetrieved = <<>>
    /\ vResult = NoValidation

\* validate_notion_databases up to the end of its first
\* validate_database_relation(..).await?
ValidateThings ==
    /\ vPc = "idle"
    /\ LET r == validate_database_relation(vIn.things, vIn.things_db,
                                           vIn.things_column_name, vIn.containers_db)
       IN  /\ vRetrieved' = Append(vRetrieved, vIn.things_db)
           /\ IF r.tag = "Ok"
              THEN vPc' = "containers" /\ vResult' = vResult
              ELSE vPc' = "done" /\ vResult' = r
    /\ UNCHANGED <<hexVars, store, lkVars, crVars, nVars, vIn>>

\* its second validate_database_relation(..).await? and Ok(())
ValidateContainers ==
    /\ vPc = "containers"
    /\ vRetrieved' = Append(vRetrieved, vIn.containers_db)
    /\ vResult' = validate_database_relation(vIn.containers, vIn.containers_db,
                                             vIn.containers_column_name, vIn.things_db)
    /\ vPc' = "done"
    /\ UNCHANGED <<hexVars, store, lkVars, crVars, nVars, vIn>>

ValidateNext == ValidateThings \/ ValidateContainers

SpecValidate == ValidateInit /\ [][ValidateNext]_vars

-----------------------------------------------------------------------------
(* Properties of the startup validation *)

\* The checks of one direction in the order missing field, wrong field kind,
\* wrong target.
DirectionCheck(schema, name, target) ==
    IF name \notin DOMAIN schema.properties THEN [err |-> "MissingProperty", actual |-> <<>>]
    ELSE IF schema.properties[name].kind # "relation" THEN [err |-> "NotRelation", actual |-> <<>>]
    ELSE IF schema.properties[name].database_id # Some(target)
    THEN [err |-> "WrongDatabase",
          actual |-> IF schema.properties[name].database_id = None THEN <<>>
                     ELSE schema.properties[name].database_id[1]]
    ELSE [err |-> "", actual |-> <<>>]

ThingsCheck == DirectionCheck(vIn.things, vIn.things_column_name, vIn.containers_db)

ContainersCheck == DirectionCheck(vIn.containers, vIn.containers_column_name, vIn.things_db)

\* every schema the validation asked for was retrieved
SchemasRetrieved == vIn.things.ok /\ (ThingsCheck.err = "" => vIn.containers.ok)

ReportsCheck(check, name, target) ==
    /\ vResult.tag = "Err"
    /\ vResult.err = check.err
    /\ vResult.property = name
    /\ check.err = "WrongDatabase" => vResult.expected = target /\ vResult.actual = check.actual

\* C12: given the two schemas, the validation returns Ok exactly when the
\* things column is a relation to the containers database and the containers
\* column is a relation to the things database; otherwise it returns the error
\* of the first failing check, the things direction before the containers
\* direction, and in a direction missing field, then wrong kind, then wrong
\* target with the expected and the actual target; after a failure in the things
\* direction the containers database is not looked at, and nothing is retried.
C12_FirstFailingCheck ==
    (vPc = "done" /\ SchemasRetrieved) =>
        IF ThingsCheck.err # ""
        THEN /\ ReportsCheck(ThingsCheck, vIn.things_column_name, vIn.containers_db)
             /\ vRetrieved = <<vIn.things_db>>
        ELSE /\ vRetrieved = <<vIn.things_db, vIn.containers_db>>
             /\ IF ContainersCheck.err # ""
                THEN ReportsCheck(ContainersCheck, vIn.containers_column_name, vIn.things_db)
                ELSE vResult = ValidationOk

====
